---- MODULE Spec2Model ----
(***************************************************************************)
(* AutoWebsite Monitor: the Scan-and-Score pipeline.                       *)
(*                                                                         *)
(*   scanWebsite        (services/webScanner)  normaliser, bounded probe,  *)
(*                                             snippet extraction          *)
(*   simulateAnalysis   (services/geminiService) deterministic scoring     *)
(*   analyzeWithGemini  (services/geminiService) enrichment orchestrator   *)
(*   App                (src/types.ts)         form state, handleScan,     *)
(*                                             clearAll                    *)
(*                                                                         *)
(* JavaScript values are represented as follows.  A url and the console    *)
(* logs are sequences of one-character strings.  A response body and an    *)
(* htmlSnippet are sequences of lexical tokens (a tag, a word or a filler  *)
(* character), each token counting as one character.  Error messages and   *)
(* the remote reply's text are atomic strings.  null and undefined are the *)
(* record Null; a nullable number or string v that is present is Val(v).   *)
(* Objects are records.                                                    *)
(***************************************************************************)
EXTENDS Integers, Sequences, FiniteSets, TLC

VARIABLES
    site,        \* behaviour of the probed endpoint during this scan
    rawUrl,      \* scanWebsite: argument rawUrl
    fetched,     \* history: the urls fetch() was called with, in order
    url,         \* scanWebsite: the normalised url
    scanPc,      \* scanWebsite: "idle" | "fetching" | "reading" | "resolved" | "rejected"
    timer4000,   \* scanWebsite: the abort timer, "unset" | "pending" | "fired" | "cleared"
    aborted,     \* scanWebsite: controller.signal.aborted
    scanResult,  \* scanWebsite: the ScanMetrics the promise resolved with, or Null
    apiKey,      \* process.env.API_KEY ("" when not configured)
    remoteEnv,   \* behaviour of the GoogleGenAI client during this analysis
    metrics,     \* analyzeWithGemini / simulateAnalysis: argument metrics
    consoleLogs, \* analyzeWithGemini / simulateAnalysis: argument consoleLogs
    anPc,        \* "idle" | "racing" | "simulating" | "resolved" | "rejected"
    anPath,      \* "none" | "direct" | "simulated" | "remote" | "fallback"
    timer15000,  \* the timeoutPromise timer, "unset" | "pending" | "fired"
    timer400,    \* simulateAnalysis's delay timer, "unset" | "pending" | "fired"
    apiCall,     \* the generateContent promise: "none" | "pending" | "fulfilled" | "rejected"
    apiCalls,    \* number of generateContent requests issued
    race,        \* the Promise.race promise: [state, by, text]
    settleOrder, \* history: "apiCall" / "timeout" in the order they settled
    anResult,    \* the AIAnalysis the promise resolved with, or Null
    invocations, \* history: the simulateAnalysis calls that returned, [metrics, logs, result]
    app,         \* App: the React state [url, logs, status, metrics, analysis, errorMsg]
    runs,        \* App: the handleScan invocations so far, each [pc, url, logs, scanResult]
    resetSince,  \* history: clearAll has run and no handleScan has started a scan since
    shownBy      \* history: the invocations that wrote app.metrics and app.analysis (0: none)

vars == <<site, rawUrl, fetched, url, scanPc, timer4000, aborted, scanResult, apiKey, remoteEnv,
          metrics, consoleLogs, anPc, anPath, timer15000, timer400, apiCall,
          apiCalls, race, settleOrder, anResult, invocations, app, runs, resetSince,
          shownBy>>

scanVars == <<site, rawUrl, fetched, url, scanPc, timer4000, aborted, scanResult>>
anVars   == <<apiKey, remoteEnv, metrics, consoleLogs, anPc, anPath, timer15000,
              timer400, apiCall, apiCalls, race, settleOrder, anResult, invocations>>
appVars  == <<app, runs, resetSince, shownBy>>

----------------------------------------------------------------------------
(* JavaScript values *)

Null == [isNull |-> TRUE]

Val(v) == [isNull |-> FALSE, v |-> v]

\* !x for a nullable number: null and 0 are falsy
FalsyNumber(x) == x.isNull \/ x.v = 0

\* !x for a nullable string held as a sequence: null and "" are falsy
FalsySeq(x) == x.isNull \/ Len(x.v) = 0

\* !x for a nullable atomic string: undefined and "" are falsy
FalsyString(x) == x.isNull \/ x.v = ""

\* String.prototype.startsWith
startsWith(s, prefix) ==
    Len(prefix) <= Len(s) /\ SubSeq(s, 1, Len(prefix)) = prefix

\* String.prototype.includes, for a one-token needle
includes(s, token) == \E i \in 1..Len(s) : s[i] = token

\* optional chaining  s?.includes(token)  (undefined, hence falsy, on null)
includesOpt(x, token) == ~x.isNull /\ includes(x.v, token)

----------------------------------------------------------------------------
(* simulateAnalysis: the deterministic scoring engine (geminiService.ts) *)

HTTPS_PREFIX == <<"h", "t", "t", "p", "s">>

\* const isError = !metrics.statusCode || metrics.statusCode >= 400
isError(m) == FalsyNumber(m.statusCode) \/ m.statusCode.v >= 400

\* const hasLogs = consoleLogs.length > 0
hasLogs(logs) == Len(logs) > 0

\* const isHttps = metrics.url.startsWith('https')
isHttps(m) == startsWith(m.url, HTTPS_PREFIX)

\* faulty variant: a missing status code gets both deductions
statusDeductionCumulative(m) ==
    IF isError(m)
    THEN (IF ~m.statusCode.isNull THEN 40 ELSE 40 + 15)
    ELSE 0

\* the deduction of the isError branch: 40 when a status code is present,
\* 15 when it is null
statusDeduction(m) ==
    IF isError(m)
    THEN (IF ~m.statusCode.isNull THEN 40 ELSE 15)
    ELSE 0

\* let score = 100; ... the four deductions, before Math.max
\* faulty variant: the deduction for an unverifiable page is missing
rawScoreNoSnippet(m, logs) ==
    100 - (IF ~isHttps(m) THEN 20 ELSE 0)
        - statusDeduction(m)
        - (IF hasLogs(logs) THEN 15 ELSE 0)

rawScore(m, logs) ==
    100 - (IF ~isHttps(m) THEN 20 ELSE 0)
        - statusDeduction(m)
        - (IF hasLogs(logs) THEN 15 ELSE 0)
        - (IF FalsySeq(m.htmlSnippet) THEN 10 ELSE 0)

\* Math.max(0, score)
clampScore(s) == IF s < 0 THEN 0 ELSE s

score(m, logs) == clampScore(rawScore(m, logs))

seoOf(m) ==
    [summary |-> IF FalsySeq(m.htmlSnippet)
                 THEN "We couldn't read the page details because the site is blocking automated scans. This usually means security is active."
                 ELSE "The basic setup for Google Search looks correct.",
     details |-> << IF includesOpt(m.htmlSnippet, "<title>")
                    THEN "Page title is visible to search engines"
                    ELSE "Page title check skipped",
                    IF includesOpt(m.htmlSnippet, "description")
                    THEN "Summary description found for search results"
                    ELSE "Search summary check skipped",
                    IF isHttps(m)
                    THEN "Connection is secure (HTTPS)"
                    ELSE "Connection is insecure (HTTP)",
                    "Search engines understand this is the main page" >>]

accessibilityOf(m) ==
    [summary |-> IF FalsySeq(m.htmlSnippet)
                 THEN "Visual accessibility check skipped due to security blocks."
                 ELSE "The code allows screen readers to read the page.",
     details |-> << "Browser knows which language to display",
                    "Page structure is readable by machines",
                    "Images have descriptions for the blind" >>]

\* faulty variant: the tier starts at 80
privacyOfInclusive(s) ==
    [summary |-> "Privacy basics appear to be in place.",
     details |-> << "Privacy policy is mentioned on the page",
                    "No invasive tracking codes found",
                    "Cookie popup not immediately visible" >>,
     level   |-> IF s >= 80 THEN "Low concern" ELSE "Needs attention"]

privacyOf(s) ==
    [summary |-> "Privacy basics appear to be in place.",
     details |-> << "Privacy policy is mentioned on the page",
                    "No invasive tracking codes found",
                    "Cookie popup not immediately visible" >>,
     level   |-> IF s > 80 THEN "Low concern" ELSE "Needs attention"]

jsErrorsOf(logs) ==
    IF hasLogs(logs)
    THEN [summary |-> "Some background scripts are failing.",
          details |-> << "A feature might be broken", "A file failed to load" >>]
    ELSE [summary |-> "No background errors detected.",
          details |-> << "Website code is running smoothly" >>]

\* faulty variant: the blocked probe is recognised by its missing status code
recommendationsOfByStatus(m) ==
    << IF ~isHttps(m)
       THEN "Switch to HTTPS to protect user passwords and improve Google ranking."
       ELSE "Double-check that your SSL security certificate renews automatically.",
       IF m.statusCode.isNull
       THEN "Your site is secure against bots, which is good! Use a server-tool for deeper analysis."
       ELSE "Add 'Schema' info so Google can show stars or prices in search results.",
       "Ensure your cookie banner is easy to read on mobile phones." >>

recommendationsOf(m) ==
    << IF ~isHttps(m)
       THEN "Switch to HTTPS to protect user passwords and improve Google ranking."
       ELSE "Double-check that your SSL security certificate renews automatically.",
       IF ~FalsyString(m.fetchError)
       THEN "Your site is secure against bots, which is good! Use a server-tool for deeper analysis."
       ELSE "Add 'Schema' info so Google can show stars or prices in search results.",
       "Ensure your cookie banner is easy to read on mobile phones." >>

\* the value simulateAnalysis resolves with once its 400 ms delay has elapsed
simulateAnalysis(m, logs) ==
    [healthScore     |-> score(m, logs),
     seo             |-> seoOf(m),
     accessibility   |-> accessibilityOf(m),
     privacy         |-> privacyOf(score(m, logs)),
     jsErrors        |-> jsErrorsOf(logs),
     recommendations |-> recommendationsOf(m)]

\* the AIAnalysis interface (types.ts): healthScore, the narrative groups,
\* privacy.level one of the three levels, recommendations; jsErrors may be null
PrivacyLevels == {"Low concern", "Needs attention", "High concern"}

IsGroup(g) == DOMAIN g = {"summary", "details"}

IsAIAnalysis(a) ==
    /\ DOMAIN a = {"healthScore", "seo", "accessibility", "privacy", "jsErrors",
                   "recommendations"}
    /\ a.healthScore \in Int
    /\ IsGroup(a.seo)
    /\ IsGroup(a.accessibility)
    /\ DOMAIN a.privacy = {"summary", "details", "level"}
    /\ a.privacy.level \in PrivacyLevels
    /\ (a.jsErrors = Null \/ IsGroup(a.jsErrors))
    /\ Len(a.recommendations) >= 0

----------------------------------------------------------------------------
(* scanWebsite: url normaliser, bounded probe, snippet extraction *)

\* the /i flag: letters compare by their lower-case form
toLower(c) ==
    CASE c = "H" -> "h"
      [] c = "T" -> "t"
      [] c = "P" -> "p"
      [] c = "S" -> "s"
      [] OTHER   -> c

lowerCase(s) == [i \in 1..Len(s) |-> toLower(s[i])]

\* the white space String.prototype.trim removes (space, tab, line feed here)
WhiteSpace == {" ", "\t", "\n"}

RECURSIVE trimStart(_)
trimStart(s) ==
    IF Len(s) > 0 /\ Head(s) \in WhiteSpace THEN trimStart(Tail(s)) ELSE s

RECURSIVE trimEnd(_)
trimEnd(s) ==
    IF Len(s) > 0 /\ s[Len(s)] \in WhiteSpace THEN trimEnd(SubSeq(s, 1, Len(s) - 1)) ELSE s

\* String.prototype.trim
trim(s) == trimEnd(trimStart(s))

HTTP_SCHEME == <<"h", "t", "t", "p", ":", "/", "/">>

HTTPS_SCHEME == <<"h", "t", "t", "p", "s", ":", "/", "/">>

\* faulty variant: the i flag is missing
hasSchemeCaseSensitive(s) ==
    startsWith(s, HTTP_SCHEME) \/ startsWith(s, HTTPS_SCHEME)

\* /^https?:\/\//i.test(url)
hasScheme(s) ==
    startsWith(lowerCase(s), HTTP_SCHEME) \/ startsWith(lowerCase(s), HTTPS_SCHEME)

\* let url = rawUrl.trim(); if (!/^https?:\/\//i.test(url)) url = `https://${url}`
normalizeUrl(raw) ==
    IF ~hasScheme(trim(raw)) THEN HTTPS_SCHEME \o trim(raw) ELSE trim(raw)

\* String.prototype.substring(0, n)
substring(s, n) == SubSeq(s, 1, IF n < Len(s) THEN n ELSE Len(s))

BODY_INNER_MAX == 1500

RAW_PREFIX_MAX == 2000

\* the tokens matched by <head>, </head>, <body[^>]*> (a body tag with or
\* without attributes) and </body> under the /i flag
HeadOpen == {"<head>", "<HEAD>"}

HeadClose == {"</head>", "</HEAD>"}

BodyOpen == {"<body>", "<body class=x>", "<BODY>"}

BodyClose == {"</body>", "</BODY>"}

\* the leftmost opening token that some closing token follows, or 0
matchStart(text, open, close) ==
    LET starts == {i \in 1..Len(text) :
                      text[i] \in open /\ \E j \in (i + 1)..Len(text) : text[j] \in close}
    IN  IF starts = {} THEN 0 ELSE CHOOSE i \in starts : \A k \in starts : i <= k

\* non-greedy: the nearest closing token after the start
matchEnd(text, start, close) ==
    CHOOSE j \in (start + 1)..Len(text) :
        text[j] \in close /\ \A k \in (start + 1)..(j - 1) : text[k] \notin close

\* text.match(/<head>([\s\S]*?)<\/head>/i): Null, or [0] the whole match
headMatch(text) ==
    LET i == matchStart(text, HeadOpen, HeadClose)
    IN  IF i = 0 THEN Null
        ELSE Val(SubSeq(text, i, matchEnd(text, i, HeadClose)))

\* text.match(/<body[^>]*>([\s\S]*?)<\/body>/i): Null, or [1] the inner content
bodyMatch(text) ==
    LET i == matchStart(text, BodyOpen, BodyClose)
    IN  IF i = 0 THEN Null
        ELSE Val(SubSeq(text, i + 1, matchEnd(text, i, BodyClose) - 1))

\* faulty variant: the body's inner content is appended whole
extractSnippetNoCap(text) ==
    LET s1 == IF ~headMatch(text).isNull THEN headMatch(text).v ELSE <<>>
        s2 == IF ~bodyMatch(text).isNull THEN s1 \o bodyMatch(text).v ELSE s1
    IN  IF Len(s2) = 0 THEN substring(text, RAW_PREFIX_MAX) ELSE s2

\* let snippet = ""; head block, then body prefix, then the raw-prefix fallback
extractSnippet(text) ==
    LET s1 == IF ~headMatch(text).isNull THEN headMatch(text).v ELSE <<>>
        s2 == IF ~bodyMatch(text).isNull
              THEN s1 \o substring(bodyMatch(text).v, BODY_INNER_MAX)
              ELSE s1
    IN  IF Len(s2) = 0 THEN substring(text, RAW_PREFIX_MAX) ELSE s2

\* faulty variant: an empty snippet is turned into null (snippet || null)
scanSuccessNullsEmpty(u, response) ==
    [url            |-> u,
     statusCode     |-> Val(response.status),
     responseTimeMs |-> Val(response.elapsed),
     headers        |-> response.headers,
     htmlSnippet    |-> IF Len(extractSnippet(response.body)) = 0 THEN Null
                        ELSE Val(extractSnippet(response.body)),
     fetchError     |-> Null]

\* the object returned from the try block
scanSuccess(u, response) ==
    [url            |-> u,
     statusCode     |-> Val(response.status),
     responseTimeMs |-> Val(response.elapsed),
     headers        |-> response.headers,
     htmlSnippet    |-> Val(extractSnippet(response.body)),
     fetchError     |-> Null]

\* faulty variant: the abort is looked for under the wrong error name
classifyErrorWrongName(error) ==
    IF error.name = "TimeoutError" THEN "Connection Timeout"
    ELSE IF error.message = "" THEN "Network/CORS Error"
    ELSE error.message

\* isAbort ? 'Connection Timeout' : (error.message || 'Network/CORS Error')
classifyError(error) ==
    IF error.name = "AbortError" THEN "Connection Timeout"
    ELSE IF error.message = "" THEN "Network/CORS Error"
    ELSE error.message

\* faulty variant: the catch block reports a response time
scanFailureKeepsTiming(u, error) ==
    [url            |-> u,
     statusCode     |-> Null,
     responseTimeMs |-> Val(0),
     headers        |-> {},
     htmlSnippet    |-> Null,
     fetchError     |-> Val(classifyError(error))]

\* the object returned from the catch block
scanFailure(u, error) ==
    [url            |-> u,
     statusCode     |-> Null,
     responseTimeMs |-> Null,
     headers        |-> {},
     htmlSnippet    |-> Null,
     fetchError     |-> Val(classifyError(error))]

\* faulty variant: the catch block rethrows
scanCatchRethrow(u, error) == [state |-> "rejected", value |-> Null]

\* how the async function settles when its try block throws `error`
scanCatch(u, error) == [state |-> "resolved", value |-> scanFailure(u, error)]

\* faulty variant: the finally block does not clear the timer
clearTimeoutForgotten(t) == t

\* clearTimeout(id): cancels a timer that has not fired yet
clearTimeout(t) == IF t = "pending" THEN "cleared" ELSE t

AbortError == [name |-> "AbortError", message |-> "The user aborted a request."]

TypeError(msg) == [name |-> "TypeError", message |-> msg]

----------------------------------------------------------------------------
(* The environment of one scan: what the user typed, how the probed         *)
(* endpoint behaves, how the remote AI client behaves.                      *)

RawUrls ==
    { <<"h", "t", "t", "p", "s", ":", "/", "/", "a">>,
      <<"h", "t", "t", "p", ":", "/", "/", "a">>,
      <<"H", "T", "T", "P", "S", ":", "/", "/", "a">>,
      <<" ", "a", " ">>,
      <<"\t", "H", "t", "t", "p", ":", "/", "/", "a", "\n">>,
      <<"h", "t", "t", "p", "s">> }

Bodies ==
    { <<>>,
      <<"a", "a">>,
      <<"<head>", "<title>", "</head>", "<body class=x>", "description", "</body>">>,
      <<"a", "<BODY>", "a", "</BODY>">> }

HeaderSets == { {}, {<<"content-type", "text/html">>} }

ErrorMessages == {"Failed to fetch", ""}

\* kind: "ok"       the response and its body arrive (unless the deadline comes first)
\*       "silent"   the endpoint never responds
\*       "neterr"   fetch rejects (network, DNS, cross-origin)
\*       "hangbody" the response arrives, its body never finishes
\*       "bodyerr"  the response arrives, reading its body fails
Sites ==
    [kind : {"ok"}, status : {200, 404}, headers : HeaderSets, body : Bodies,
     elapsed : {0, 120}, message : {""}]
    \cup
    [kind : {"hangbody"}, status : {200}, headers : {{}}, body : {<<>>},
     elapsed : {120}, message : {""}]
    \cup
    [kind : {"bodyerr", "neterr"}, status : {200}, headers : {{}}, body : {<<>>},
     elapsed : {120}, message : ErrorMessages]
    \cup
    [kind : {"silent"}, status : {200}, headers : {{}}, body : {<<>>},
     elapsed : {120}, message : {""}]

NoSite ==
    [kind |-> "none", status |-> 0, headers |-> {}, body |-> <<>>, elapsed |-> 0,
     message |-> ""]

MaxLogLen == 1

\* the console logs pasted into the form: empty, or up to MaxLogLen characters
LogInputs == { [i \in 1..n |-> "E"] : n \in 0..MaxLogLen }

ApiKeys == {"", "key"}

VALID_TEXT ==
    "{\"healthScore\":72,\"seo\":{\"summary\":\"s\",\"details\":[\"d\"]},\"accessibility\":{\"summary\":\"s\",\"details\":[\"d\"]},\"privacy\":{\"summary\":\"s\",\"details\":[\"d\"],\"level\":\"High concern\"},\"jsErrors\":{\"summary\":\"s\",\"details\":[\"d\"]},\"recommendations\":[\"r\"]}"

VALID_VALUE ==
    [healthScore     |-> 72,
     seo             |-> [summary |-> "s", details |-> <<"d">>],
     accessibility   |-> [summary |-> "s", details |-> <<"d">>],
     privacy         |-> [summary |-> "s", details |-> <<"d">>, level |-> "High concern"],
     jsErrors        |-> [summary |-> "s", details |-> <<"d">>],
     recommendations |-> <<"r">>]

MISMATCH_TEXT == "{\"healthScore\":150}"

MISMATCH_VALUE == [healthScore |-> 150]

GARBAGE_TEXT == "I am sorry, I cannot help with that"

\* JSON.parse on the reply texts above: the parsed value, or a SyntaxError
jsonParse(text) ==
    CASE text = VALID_TEXT    -> [ok |-> TRUE, value |-> VALID_VALUE]
      [] text = MISMATCH_TEXT -> [ok |-> TRUE, value |-> MISMATCH_VALUE]
      [] OTHER                -> [ok |-> FALSE, value |-> Null]

\* ctor: whether new GoogleGenAI({ apiKey }) returns or throws
\* call: "silent"  generateContent never settles
\*       "rejects" generateContent rejects
\*       "fulfils" generateContent fulfils with a response whose .text is `text`
RemoteEnvs ==
    [ctor : {"throws"}, call : {"silent"}, text : {Null}]
    \cup
    [ctor : {"ok"}, call : {"silent", "rejects"}, text : {Null}]
    \cup
    [ctor : {"ok"}, call : {"fulfils"},
     text : {Null, Val(""), Val(GARBAGE_TEXT), Val(MISMATCH_TEXT), Val(VALID_TEXT)}]

NoRemote == [ctor |-> "none", call |-> "none", text |-> Null]

RacePending == [state |-> "pending", by |-> "none", text |-> Null]

----------------------------------------------------------------------------
(* scanWebsite as a state machine *)

\* lines 4-21: normalise, start the abort timer, issue the one request
scanCall ==
    /\ scanPc = "idle"
    /\ \E raw \in RawUrls, s \in Sites :
          /\ rawUrl' = raw
          /\ url' = normalizeUrl(raw)
          /\ fetched' = Append(fetched, normalizeUrl(raw))
          /\ site' = s
    /\ timer4000' = "pending"
    /\ aborted' = FALSE
    /\ scanPc' = "fetching"
    /\ UNCHANGED scanResult

\* scanWebsite is called
ScanStart ==
    /\ scanCall
    /\ UNCHANGED <<anVars, appVars>>

\* the response (status and headers) arrives: await fetch(...) continues to
\* await response.text()
FetchFulfil ==
    /\ scanPc = "fetching"
    /\ ~aborted
    /\ site.kind \in {"ok", "hangbody", "bodyerr"}
    /\ scanPc' = "reading"
    /\ UNCHANGED <<site, rawUrl, fetched, url, timer4000, aborted, scanResult, anVars, appVars>>

\* faulty variant: the catch block issues the request again
ScanCatchRetry(error) ==
    /\ scanPc' = "fetching"
    /\ fetched' = Append(fetched, url)
    /\ UNCHANGED <<site, rawUrl, url, timer4000, aborted, scanResult, anVars, appVars>>

\* the async function settles from its catch block, then finally runs
ScanCatch(error) ==
    /\ scanPc' = scanCatch(url, error).state
    /\ scanResult' = scanCatch(url, error).value
    /\ timer4000' = clearTimeout(timer4000)
    /\ UNCHANGED <<site, rawUrl, fetched, url, aborted, anVars, appVars>>

\* fetch rejects: network failure, DNS failure, cross-origin block
FetchReject ==
    /\ scanPc = "fetching"
    /\ ~aborted
    /\ site.kind = "neterr"
    /\ ScanCatch(TypeError(site.message))

\* the body arrives: lines 26-47, then finally
TextFulfil ==
    /\ scanPc = "reading"
    /\ ~aborted
    /\ site.kind = "ok"
    /\ scanPc' = "resolved"
    /\ scanResult' = scanSuccess(url, site)
    /\ timer4000' = clearTimeout(timer4000)
    /\ UNCHANGED <<site, rawUrl, fetched, url, aborted, anVars, appVars>>

\* reading the body fails
TextReject ==
    /\ scanPc = "reading"
    /\ ~aborted
    /\ site.kind = "bodyerr"
    /\ ScanCatch(TypeError(site.message))

\* faulty variant: the timer's callback does not abort the request
AbortTimerFireNoAbort ==
    /\ timer4000 = "pending"
    /\ timer4000' = "fired"
    /\ UNCHANGED <<site, rawUrl, fetched, url, scanPc, aborted, scanResult, anVars, appVars>>

\* setTimeout(() => controller.abort(), 4000) fires
AbortTimerFire ==
    /\ timer4000 = "pending"
    /\ timer4000' = "fired"
    /\ aborted' = TRUE
    /\ UNCHANGED <<site, rawUrl, fetched, url, scanPc, scanResult, anVars, appVars>>

\* the aborted signal rejects the pending fetch or body read with an AbortError
AbortReject ==
    /\ scanPc \in {"fetching", "reading"}
    /\ aborted
    /\ ScanCatch(AbortError)

----------------------------------------------------------------------------
(* analyzeWithGemini as a state machine *)

\* faulty variant: the missing key is not noticed
analyzeEntryIgnoresKey(key, env) ==
    IF env.ctor = "throws" THEN "throw" ELSE "remote"

\* lines 82-99: which way the function leaves its prologue
\*   "simulate"  no API key: return simulateAnalysis(metrics, consoleLogs)
\*   "throw"     new GoogleGenAI(...) throws, outside the try block
\*   "remote"    the try block is entered
analyzeEntry(key, env) ==
    IF key = "" THEN "simulate"
    ELSE IF env.ctor = "throws" THEN "throw"
    ELSE "remote"

\* handleScan passes the probe's result on: analyzeWithGemini(scanResult, logs)
analyzeCall ==
    /\ scanPc = "resolved"
    /\ anPc = "idle"
    /\ \E key \in ApiKeys, env \in RemoteEnvs, logs \in LogInputs :
          /\ apiKey' = key
          /\ remoteEnv' = env
          /\ consoleLogs' = logs
          /\ metrics' = scanResult
          /\ CASE analyzeEntry(key, env) = "simulate" ->
                    /\ anPc' = "simulating"
                    /\ anPath' = "simulated"
                    /\ timer400' = "pending"
                    /\ UNCHANGED <<timer15000, apiCall, apiCalls>>
               [] analyzeEntry(key, env) = "throw" ->
                    /\ anPc' = "rejected"
                    /\ UNCHANGED <<anPath, timer400, timer15000, apiCall, apiCalls>>
               [] analyzeEntry(key, env) = "remote" ->
                    /\ anPc' = "racing"
                    /\ timer15000' = "pending"
                    /\ apiCall' = "pending"
                    /\ apiCalls' = apiCalls + 1
                    /\ UNCHANGED <<anPath, timer400>>
    /\ UNCHANGED <<race, settleOrder, anResult, invocations>>

\* analyzeWithGemini is called with the probe's result
AnalyzeStart ==
    /\ analyzeCall
    /\ UNCHANGED <<scanVars, appVars>>

\* faulty variant: the last promise to settle wins
raceSettleLastWins(r, by, state, text) ==
    [state |-> state, by |-> by, text |-> text]

\* Promise.race: the first input promise to settle settles the race; a later
\* settlement is ignored
raceSettle(r, by, state, text) ==
    IF r.state = "pending" THEN [state |-> state, by |-> by, text |-> text] ELSE r

\* the generateContent promise settles
ApiCallSettle ==
    /\ apiCall = "pending"
    /\ remoteEnv.call \in {"fulfils", "rejects"}
    /\ apiCall' = IF remoteEnv.call = "fulfils" THEN "fulfilled" ELSE "rejected"
    /\ race' = raceSettle(race, "apiCall", apiCall', remoteEnv.text)
    /\ settleOrder' = Append(settleOrder, "apiCall")
    /\ UNCHANGED <<apiKey, remoteEnv, metrics, consoleLogs, anPc, anPath, timer15000,
                   timer400, apiCalls, anResult, scanVars, appVars,
                   invocations>>

\* faulty variant: the timer fires without rejecting the timeout promise
TimeoutFireNoReject ==
    /\ timer15000 = "pending"
    /\ timer15000' = "fired"
    /\ UNCHANGED <<apiKey, remoteEnv, metrics, consoleLogs, anPc, anPath, timer400,
                   apiCall, apiCalls, race, settleOrder, anResult, scanVars, appVars,
                   invocations>>

\* setTimeout(() => reject(new Error("AI Analysis Timed Out")), 15000) fires
TimeoutFire ==
    /\ timer15000 = "pending"
    /\ timer15000' = "fired"
    /\ race' = raceSettle(race, "timeout", "rejected", Null)
    /\ settleOrder' = Append(settleOrder, "timeout")
    /\ UNCHANGED <<apiKey, remoteEnv, metrics, consoleLogs, anPc, anPath, timer400,
                   apiCall, apiCalls, anResult, scanVars, appVars,
                   invocations>>

\* lines 182-191: what the code after the await does with the settled race
\*   response && response.text  ->  JSON.parse(response.text) as AIAnalysis
\*   otherwise, or when anything was thrown  ->  the catch block
raceOutcome(r) ==
    IF r.state = "fulfilled" /\ ~FalsyString(r.text) /\ jsonParse(r.text.v).ok
    THEN [path |-> "remote", value |-> jsonParse(r.text.v).value]
    ELSE [path |-> "fallback", value |-> Null]

\* await Promise.race([apiCall, timeoutPromise]) resumes
RaceResume ==
    /\ anPc = "racing"
    /\ race.state # "pending"
    /\ anPath' = raceOutcome(race).path
    /\ IF raceOutcome(race).path = "remote"
       THEN /\ anPc' = "resolved"
            /\ anResult' = raceOutcome(race).value
            /\ UNCHANGED timer400
       ELSE /\ anPc' = "simulating"
            /\ timer400' = "pending"
            /\ UNCHANGED anResult
    /\ UNCHANGED <<apiKey, remoteEnv, metrics, consoleLogs, timer15000, apiCall,
                   apiCalls, race, settleOrder, scanVars, appVars,
                   invocations>>

\* faulty variant: the score is kept in a counter shared by all calls, so each
\* report is lowered by the number of reports returned before it
SimulateDelayFireShared ==
    /\ anPc = "simulating"
    /\ timer400 = "pending"
    /\ timer400' = "fired"
    /\ anPc' = "resolved"
    /\ anResult' = [simulateAnalysis(metrics, consoleLogs) EXCEPT
                        !.healthScore = clampScore(@ - Len(invocations))]
    /\ invocations' = Append(invocations, [metrics |-> metrics, logs |-> consoleLogs,
                                           result |-> anResult'])
    /\ UNCHANGED <<apiKey, remoteEnv, metrics, consoleLogs, anPath, timer15000,
                   apiCall, apiCalls, race, settleOrder, scanVars, appVars>>

\* simulateAnalysis's 400 ms delay elapses and it returns its report
SimulateDelayFire ==
    /\ anPc = "simulating"
    /\ timer400 = "pending"
    /\ timer400' = "fired"
    /\ anPc' = "resolved"
    /\ anResult' = simulateAnalysis(metrics, consoleLogs)
    /\ invocations' = Append(invocations, [metrics |-> metrics, logs |-> consoleLogs,
                                           result |-> anResult'])
    /\ UNCHANGED <<apiKey, remoteEnv, metrics, consoleLogs, anPath, timer15000,
                   apiCall, apiCalls, race, settleOrder, scanVars, appVars>>

----------------------------------------------------------------------------
(* App: the form, its React state, and handleScan / clearAll.  Several     *)
(* handleScan invocations can be in flight; each awaits scanWebsite and     *)
(* then analyzeWithGemini, and its continuations write the shared state.    *)

\* useState initial values
InitialApp ==
    [url |-> <<>>, logs |-> <<>>, status |-> "idle", metrics |-> Null,
     analysis |-> Null, errorMsg |-> Null]

AppInit ==
    /\ app = InitialApp
    /\ runs = <<>>
    /\ resetSince = FALSE
    /\ shownBy = [metrics |-> 0, analysis |-> 0]

\* number of handleScan invocations that start a scan
MaxScans == 2

\* what the user types into the url field
UrlInputs == { <<>>, HTTP_SCHEME \o <<"a">> }

\* the endpoint behaviours that give the probe a response
ProbedSites ==
    { s \in Sites : s.kind = "ok" /\ s.status = 200 /\ s.headers = {} /\ s.elapsed = 120
                    /\ s.body = <<"a", "a">> }

\* the values the promise of scanWebsite(u) resolves with
ScanOutcomes(u) ==
    { scanSuccess(normalizeUrl(u), s) : s \in ProbedSites }
    \cup { scanFailure(normalizeUrl(u), AbortError) }

\* the values the promise of analyzeWithGemini(m, logs) resolves with
AnalysisOutcomes(m, logs) ==
    { simulateAnalysis(m, logs), jsonParse(VALID_TEXT).value }

\* the state after clearAll's six setters
clearAll(a) ==
    [a EXCEPT !.url = <<>>, !.logs = <<>>, !.status = "idle", !.metrics = Null,
              !.analysis = Null, !.errorMsg = Null]

\* onChange of the url field
SetUrl ==
    /\ \E value \in UrlInputs :
          /\ value # app.url
          /\ app' = [app EXCEPT !.url = value]
    /\ UNCHANGED <<runs, resetSince, shownBy, scanVars, anVars>>

\* onChange of the logs field
SetLogs ==
    /\ \E value \in LogInputs :
          /\ value # app.logs
          /\ app' = [app EXCEPT !.logs = value]
    /\ UNCHANGED <<runs, resetSince, shownBy, scanVars, anVars>>

\* handleScan from its entry to its first await, without the call it makes:
\* the guard, the four setters, and the new invocation with the url and logs
\* of the render it was created in
handleScanEntry ==
    /\ app.status \notin {"scanning", "analyzing"}
    /\ IF app.url = <<>>
       THEN /\ app' = [app EXCEPT !.errorMsg = Val("Please enter a valid URL.")]
            /\ UNCHANGED <<runs, resetSince, shownBy>>
       ELSE /\ Len(runs) < MaxScans
            /\ app' = [app EXCEPT !.status = "scanning", !.errorMsg = Null,
                                  !.metrics = Null, !.analysis = Null]
            /\ runs' = Append(runs, [pc |-> "awaitScan", url |-> app.url,
                                     logs |-> app.logs, scanResult |-> Null])
            /\ resetSince' = FALSE
            /\ shownBy' = [metrics |-> 0, analysis |-> 0]

\* invocation i after await scanWebsite(url) returned `result`:
\* setMetrics(scanResult), setStatus('analyzing')
afterScan(i, result) ==
    /\ runs[i].pc = "awaitScan"
    /\ app' = [app EXCEPT !.metrics = result, !.status = "analyzing"]
    /\ runs' = [runs EXCEPT ![i].pc = "awaitAnalysis", ![i].scanResult = result]
    /\ shownBy' = [shownBy EXCEPT !.metrics = i]
    /\ UNCHANGED resetSince

\* invocation i after await analyzeWithGemini(...) returned `aiResult`:
\* setAnalysis(aiResult), setStatus('complete')
afterAnalysis(i, aiResult) ==
    /\ runs[i].pc = "awaitAnalysis"
    /\ app' = [app EXCEPT !.analysis = aiResult, !.status = "complete"]
    /\ runs' = [runs EXCEPT ![i].pc = "done"]
    /\ shownBy' = [shownBy EXCEPT !.analysis = i]
    /\ UNCHANGED resetSince

\* invocation i's catch block: setStatus('error'), setErrorMsg(...)
afterAnalysisThrew(i) ==
    /\ runs[i].pc = "awaitAnalysis"
    /\ app' = [app EXCEPT !.status = "error",
                          !.errorMsg = Val("AI Analysis failed. Please try again.")]
    /\ runs' = [runs EXCEPT ![i].pc = "done"]
    /\ UNCHANGED <<resetSince, shownBy>>

\* a click on Run Diagnosis (enabled unless scanning or analyzing)
HandleScan ==
    /\ handleScanEntry
    /\ UNCHANGED <<scanVars, anVars>>

\* handleScan i resumes after await scanWebsite(url)
ScanResume(i) ==
    /\ runs[i].pc = "awaitScan"
    /\ \E result \in ScanOutcomes(runs[i].url) : afterScan(i, result)
    /\ UNCHANGED <<scanVars, anVars>>

\* handleScan i resumes after await analyzeWithGemini(scanResult, logs)
AnalyzeResume(i) ==
    /\ runs[i].pc = "awaitAnalysis"
    /\ \E aiResult \in AnalysisOutcomes(runs[i].scanResult, runs[i].logs) :
          afterAnalysis(i, aiResult)
    /\ UNCHANGED <<scanVars, anVars>>

\* analyzeWithGemini rejected: handleScan i's catch block
AnalyzeCatch(i) ==
    /\ afterAnalysisThrew(i)
    /\ UNCHANGED <<scanVars, anVars>>

\* a click on Clear form
ClearAll ==
    /\ app' = clearAll(app)
    /\ resetSince' = TRUE
    /\ shownBy' = [metrics |-> 0, analysis |-> 0]
    /\ UNCHANGED <<runs, scanVars, anVars>>

----------------------------------------------------------------------------
(* Specifications *)

Init ==
    /\ site = NoSite
    /\ rawUrl = <<>>
    /\ fetched = <<>>
    /\ url = <<>>
    /\ scanPc = "idle"
    /\ timer4000 = "unset"
    /\ aborted = FALSE
    /\ scanResult = Null
    /\ apiKey = ""
    /\ remoteEnv = NoRemote
    /\ metrics = Null
    /\ consoleLogs = <<>>
    /\ anPc = "idle"
    /\ anPath = "none"
    /\ timer15000 = "unset"
    /\ timer400 = "unset"
    /\ apiCall = "none"
    /\ apiCalls = 0
    /\ race = RacePending
    /\ settleOrder = <<>>
    /\ anResult = Null
    /\ invocations = <<>>
    /\ AppInit

Next ==
    \/ ScanStart
    \/ FetchFulfil
    \/ FetchReject
    \/ TextFulfil
    \/ TextReject
    \/ AbortTimerFire
    \/ AbortReject
    \/ AnalyzeStart
    \/ ApiCallSettle
    \/ TimeoutFire
    \/ RaceResume
    \/ SimulateDelayFire

\* one scan: the probe, then the enrichment of its result
Spec == Init /\ [][Next]_vars

\* timers fire, and a settled promise's continuation runs
Fairness ==
    /\ WF_vars(AbortTimerFire)
    /\ WF_vars(AbortReject)
    /\ WF_vars(TimeoutFire)
    /\ WF_vars(RaceResume)
    /\ WF_vars(SimulateDelayFire)

FairSpec == Spec /\ Fairness

----------------------------------------------------------------------------
(* The scoring engine on its own: simulateAnalysis applied to every         *)
(* ScanMetrics of the sample below, not only to those a probe produces.     *)

ScoreStatusCodes == {0, 1, 200, 399, 400, 404, 500, 599}

ScoreSnippets ==
    { Null, Val(<<>>), Val(<<"a">>), Val(<<"<title>", "description">>) }

ScoreMetrics ==
    [url            : RawUrls,
     statusCode     : {Null} \cup {Val(c) : c \in ScoreStatusCodes},
     responseTimeMs : {Null, Val(120)},
     headers        : {{}},
     htmlSnippet    : ScoreSnippets,
     fetchError     : {Null, Val("Failed to fetch")}]

InitScore ==
    /\ site = NoSite
    /\ rawUrl = <<>>
    /\ fetched = <<>>
    /\ url = <<>>
    /\ scanPc = "idle"
    /\ timer4000 = "unset"
    /\ aborted = FALSE
    /\ scanResult = Null
    /\ apiKey = ""
    /\ remoteEnv = NoRemote
    /\ metrics \in ScoreMetrics
    /\ consoleLogs \in LogInputs
    /\ anPc = "simulating"
    /\ anPath = "direct"
    /\ timer15000 = "unset"
    /\ timer400 = "pending"
    /\ apiCall = "none"
    /\ apiCalls = 0
    /\ race = RacePending
    /\ settleOrder = <<>>
    /\ anResult = Null
    /\ invocations = <<>>
    /\ AppInit

NextScore == SimulateDelayFire

SpecScore == InitScore /\ [][NextScore]_vars

----------------------------------------------------------------------------
(* Snippet extraction on its own: lines 32-47 applied to every response     *)
(* body of up to MaxTextLen tokens, and to bodies around the two length     *)
(* limits.                                                                  *)

MaxTextLen == 3

SnippetTokens == {"<head>", "</head>", "<body class=x>", "</body>", "a"}

ShortTexts == UNION { [1..k -> SnippetTokens] : k \in 0..MaxTextLen }

filler(n) == [i \in 1..n |-> "a"]

LongTexts ==
    { filler(RAW_PREFIX_MAX),
      filler(RAW_PREFIX_MAX + 1),
      <<"<body>">> \o filler(BODY_INNER_MAX) \o <<"</body>">>,
      <<"<body>">> \o filler(BODY_INNER_MAX + 1) \o <<"</body>">>,
      <<"<head>", "<title>", "</head>", "<BODY>">> \o filler(BODY_INNER_MAX + 1)
          \o <<"</BODY>">>,
      <<"<head>">> \o filler(RAW_PREFIX_MAX + 1) \o <<"</head>">> }

SnippetSites ==
    [kind : {"ok"}, status : {200}, headers : {{}},
     body : ShortTexts \cup LongTexts, elapsed : {120}, message : {""}]

\* the response has arrived and response.text() is pending
InitSnippet ==
    /\ site \in SnippetSites
    /\ rawUrl = HTTPS_SCHEME \o <<"a">>
    /\ fetched = << HTTPS_SCHEME \o <<"a">> >>
    /\ url = HTTPS_SCHEME \o <<"a">>
    /\ scanPc = "reading"
    /\ timer4000 = "pending"
    /\ aborted = FALSE
    /\ scanResult = Null
    /\ apiKey = ""
    /\ remoteEnv = NoRemote
    /\ metrics = Null
    /\ consoleLogs = <<>>
    /\ anPc = "idle"
    /\ anPath = "none"
    /\ timer15000 = "unset"
    /\ timer400 = "unset"
    /\ apiCall = "none"
    /\ apiCalls = 0
    /\ race = RacePending
    /\ settleOrder = <<>>
    /\ anResult = Null
    /\ invocations = <<>>
    /\ AppInit

NextSnippet == TextFulfil

SpecSnippet == InitSnippet /\ [][NextSnippet]_vars

----------------------------------------------------------------------------
(* The scoring engine called repeatedly: each call gets its own metrics and *)
(* logs, and the reports returned so far are kept in `invocations`.         *)

\* number of simulateAnalysis calls in one behaviour
MaxInvocations == 3

RepeatMetrics ==
    { m \in ScoreMetrics :
         /\ m.url \in { HTTPS_SCHEME \o <<"a">>, HTTP_SCHEME \o <<"a">> }
         /\ m.statusCode \in {Null, Val(200)}
         /\ m.responseTimeMs = Null
         /\ m.htmlSnippet \in {Null, Val(<<"<title>", "description">>)}
         /\ m.fetchError = Null }

\* a caller invokes simulateAnalysis again, up to its await of the delay
SimulateAgain ==
    /\ anPc = "resolved"
    /\ anPath = "direct"
    /\ Len(invocations) < MaxInvocations
    /\ metrics' \in RepeatMetrics
    /\ consoleLogs' \in LogInputs
    /\ anPc' = "simulating"
    /\ timer400' = "pending"
    /\ UNCHANGED <<apiKey, remoteEnv, anPath, timer15000, apiCall, apiCalls, race,
                   settleOrder, anResult, invocations, scanVars, appVars>>

InitRepeat ==
    /\ InitScore
    /\ metrics \in RepeatMetrics

NextRepeat ==
    \/ SimulateDelayFire
    \/ SimulateAgain

SpecRepeat == InitRepeat /\ [][NextRepeat]_vars

----------------------------------------------------------------------------
(* The form on its own: clicks, edits and the continuations of the          *)
(* handleScan invocations, in any order.                                    *)

NextApp ==
    \/ SetUrl
    \/ SetLogs
    \/ HandleScan
    \/ \E i \in 1..Len(runs) : ScanResume(i)
    \/ \E i \in 1..Len(runs) : AnalyzeResume(i)
    \/ \E i \in 1..Len(runs) : AnalyzeCatch(i)
    \/ ClearAll

SpecApp == Init /\ [][NextApp]_vars

----------------------------------------------------------------------------
(* The form composed with the probe and the enrichment: one handleScan      *)
(* invocation whose awaits are served by the state machines of scanWebsite  *)
(* and analyzeWithGemini, with edits and Clear form clicks at any moment.   *)

\* a click on Run Diagnosis: handleScan up to its await, scanWebsite(url)
\* included
PipelineHandleScan ==
    /\ handleScanEntry
    /\ Len(runs') <= 1
    /\ IF app.url = <<>>
       THEN UNCHANGED scanVars
       ELSE /\ scanCall
            /\ rawUrl' = app.url
            /\ site'.kind = "ok" => site' \in ProbedSites
    /\ UNCHANGED anVars

\* the probe has resolved: setMetrics, setStatus('analyzing'), and
\* analyzeWithGemini(scanResult, logs) up to its await
PipelineScanResume ==
    /\ Len(runs) = 1
    /\ scanPc = "resolved"
    /\ afterScan(1, scanResult)
    /\ analyzeCall
    /\ consoleLogs' = runs[1].logs
    /\ UNCHANGED scanVars

\* the enrichment has resolved: setAnalysis, setStatus('complete')
PipelineAnalyzeResume ==
    /\ Len(runs) = 1
    /\ anPc = "resolved"
    /\ afterAnalysis(1, anResult)
    /\ UNCHANGED <<scanVars, anVars>>

\* the enrichment has rejected: the catch block
PipelineAnalyzeCatch ==
    /\ Len(runs) = 1
    /\ anPc = "rejected"
    /\ afterAnalysisThrew(1)
    /\ UNCHANGED <<scanVars, anVars>>

NextPipeline ==
    \/ SetUrl
    \/ SetLogs
    \/ ClearAll
    \/ PipelineHandleScan
    \/ FetchFulfil
    \/ FetchReject
    \/ TextFulfil
    \/ TextReject
    \/ AbortTimerFire
    \/ AbortReject
    \/ PipelineScanResume
    \/ ApiCallSettle
    \/ TimeoutFire
    \/ RaceResume
    \/ SimulateDelayFire
    \/ PipelineAnalyzeResume
    \/ PipelineAnalyzeCatch

SpecPipeline == Init /\ [][NextPipeline]_vars

\* timers fire, and the continuation of a settled await runs; the probed
\* endpoint and the remote service owe nothing
FairSpecPipeline ==
    /\ SpecPipeline
    /\ Fairness
    /\ WF_vars(PipelineScanResume)
    /\ WF_vars(PipelineAnalyzeResume)
    /\ WF_vars(PipelineAnalyzeCatch)

----------------------------------------------------------------------------
(* Properties *)

ConnectionTimeout == "Connection Timeout"

\* the enrichment was entered with a key and the remote reply settled the race
\* with a non-empty text that parses
RemoteWon ==
    /\ settleOrder # <<>>
    /\ settleOrder[1] = "apiCall"
    /\ remoteEnv.call = "fulfils"
    /\ ~FalsyString(remoteEnv.text)
    /\ jsonParse(remoteEnv.text.v).ok

\* ... and the parsed reply has the AIAnalysis shape
RemoteWonValid == RemoteWon /\ IsAIAnalysis(jsonParse(remoteEnv.text.v).value)

\* C1: analyzeWithGemini never rejects, whatever the remote client does
\* (no credential, construction failure, rejection, silence, empty or
\* unparseable or valid text).
C1_NeverRejects == anPc # "rejected"

\* C2: every value analyzeWithGemini resolves with has an integer healthScore
\* in 0..100 and seo, accessibility, privacy (with a level) and
\* recommendations populated, on every path and for every remote payload.
C2_ResultWellFormed ==
    (anPc = "resolved" /\ anPath # "direct") =>
        /\ IsAIAnalysis(anResult)
        /\ anResult.healthScore \in 0..100

\* C3: the remote payload is returned only when the remote call settled before
\* the 15000 ms timer, its text is non-empty and the parsed text matches the
\* AIAnalysis shape; in every other case the result is simulateAnalysis's for
\* the same (metrics, logs).
C3_RemoteOnlyWhenValid ==
    (anPc = "resolved" /\ anPath # "direct") =>
        IF apiKey # "" /\ RemoteWonValid
        THEN anResult = jsonParse(remoteEnv.text.v).value
        ELSE anResult = simulateAnalysis(metrics, consoleLogs)

\* C4: only the first of the remote call and the 15000 ms timer to settle
\* determines the result: a valid reply that settles first is returned
\* unchanged, a reply (or rejection) that settles after the timer has no
\* effect, and a result once returned is never replaced.
C4_FirstSettledWins ==
    /\ [](anPc = "resolved" /\ settleOrder # <<>> =>
            /\ settleOrder[1] = "timeout" =>
                  anResult = simulateAnalysis(metrics, consoleLogs)
            /\ RemoteWonValid => anResult = jsonParse(remoteEnv.text.v).value)
    /\ [][anPc = "resolved" => (anPc' = "resolved" /\ anResult' = anResult)]_vars

\* C4 witness: the timer fired first, a valid reply arrived later, and the
\* function resolved with the fallback report
C4_Witness ==
    /\ anPc = "resolved"
    /\ settleOrder = <<"timeout", "apiCall">>
    /\ remoteEnv.text = Val(VALID_TEXT)
    /\ apiCall = "fulfilled"
    /\ anResult = simulateAnalysis(metrics, consoleLogs)

\* C5: without a credential analyzeWithGemini issues no remote call, starts no
\* 15000 ms timer, and resolves with simulateAnalysis's result for the same
\* inputs once the 400 ms delay has elapsed.
C5_NoCredentialSimulates ==
    (apiKey = "" /\ anPc # "idle" /\ anPath # "direct") =>
        /\ apiCalls = 0
        /\ apiCall = "none"
        /\ timer15000 = "unset"
        /\ race = RacePending
        /\ anPath = "simulated"
        /\ anPc \in {"simulating", "resolved"}
        /\ anPc = "simulating" => (timer400 = "pending" /\ anResult = Null)
        /\ anPc = "resolved" =>
              /\ timer400 = "fired"
              /\ anResult = simulateAnalysis(metrics, consoleLogs)

\* C5 witness: an analysis without a key has resolved
C5_Witness == apiKey = "" /\ anPath = "simulated" /\ anPc = "resolved"

\* C6: a probe of an endpoint that never responds, or whose body never
\* finishes, eventually resolves, and then the 4000 ms deadline has expired and
\* fetchError is "Connection Timeout".
C6_SilentEndpointTimesOut ==
    /\ [](scanPc = "resolved" /\ site.kind \in {"silent", "hangbody"} =>
            /\ timer4000 = "fired"
            /\ scanResult.fetchError = Val(ConnectionTimeout))
    /\ (scanPc \in {"fetching", "reading"} /\ site.kind \in {"silent", "hangbody"})
          ~> (scanPc = "resolved")

\* C6 witness: the probe of a silent endpoint has resolved with the timeout
C6_Witness ==
    /\ scanPc = "resolved"
    /\ site.kind = "silent"
    /\ scanResult.fetchError = Val(ConnectionTimeout)

\* the description of the failure the endpoint produced
FailureDescription == site.message

\* C7 as stated: fetchError is "Connection Timeout" exactly when the deadline
\* expired and cancelled the request, and every other failure yields the
\* underlying failure's description, distinct from "Connection Timeout".
C7_Original ==
    (scanPc = "resolved" /\ ~scanResult.fetchError.isNull) =>
        /\ scanResult.fetchError.v = ConnectionTimeout <=> timer4000 = "fired"
        /\ timer4000 # "fired" =>
              /\ scanResult.fetchError.v = FailureDescription
              /\ scanResult.fetchError.v # ConnectionTimeout

\* C7 amended: fetchError is "Connection Timeout" exactly when the deadline
\* expired and cancelled the request; every other failure yields the failure's
\* message, or "Network/CORS Error" when the failure carries no message.
C7_Classification ==
    /\ (scanPc = "resolved" /\ timer4000 = "fired") =>
          scanResult.fetchError = Val(ConnectionTimeout)
    /\ (scanPc = "resolved" /\ ~scanResult.fetchError.isNull) =>
          /\ scanResult.fetchError.v = ConnectionTimeout <=> timer4000 = "fired"
          /\ timer4000 # "fired" =>
                scanResult.fetchError.v =
                    IF FailureDescription = "" THEN "Network/CORS Error"
                    ELSE FailureDescription

\* C7 witness: a network failure without a message has been classified
C7_Witness ==
    /\ scanPc = "resolved"
    /\ site.kind = "neterr"
    /\ site.message = ""
    /\ timer4000 = "cleared"
    /\ scanResult.fetchError = Val("Network/CORS Error")

\* C8 as stated: fetchError is absent iff statusCode is present, iff
\* responseTimeMs is present, iff headers is non-empty.
C8_Original ==
    scanPc = "resolved" =>
        /\ scanResult.fetchError.isNull <=> ~scanResult.statusCode.isNull
        /\ scanResult.fetchError.isNull <=> ~scanResult.responseTimeMs.isNull
        /\ scanResult.fetchError.isNull <=> scanResult.headers # {}

\* C8 amended: fetchError is absent iff statusCode is present, iff
\* responseTimeMs is present; headers is empty whenever fetchError is present,
\* and on success it is the response's header set, which may be empty.
C8_Gating ==
    scanPc = "resolved" =>
        /\ scanResult.fetchError.isNull <=> ~scanResult.statusCode.isNull
        /\ scanResult.fetchError.isNull <=> ~scanResult.responseTimeMs.isNull
        /\ ~scanResult.fetchError.isNull => scanResult.headers = {}
        /\ scanResult.fetchError.isNull => scanResult.headers = site.headers

\* C8 witness: a successful probe whose response exposes no header
C8_Witness ==
    /\ scanPc = "resolved"
    /\ scanResult.fetchError.isNull
    /\ scanResult.statusCode = Val(200)
    /\ scanResult.headers = {}

\* C9: scanWebsite always resolves and never rejects; every outcome of the
\* request is returned as a ScanMetrics, failures carried in fetchError.
C9_AlwaysResolves ==
    /\ [](scanPc # "rejected")
    /\ [](scanPc = "resolved" =>
            /\ DOMAIN scanResult = {"url", "statusCode", "responseTimeMs", "headers",
                                    "htmlSnippet", "fetchError"}
            /\ scanResult.url = url
            /\ (site.kind # "ok" \/ timer4000 = "fired") =>
                  ~scanResult.fetchError.isNull)
    /\ (scanPc \in {"fetching", "reading"}) ~> (scanPc = "resolved")

\* C9 witness: a failure while reading the body came back as a value
C9_Witness ==
    /\ scanPc = "resolved"
    /\ site.kind = "bodyerr"
    /\ timer4000 = "cleared"
    /\ ~scanResult.fetchError.isNull

\* the deduction table of the scoring engine as the claim states it; an
\* htmlSnippet that is null or empty counts as absent
ClaimedScore(m, logs) ==
    LET s == 100
             - (IF ~startsWith(m.url, HTTPS_PREFIX) THEN 20 ELSE 0)
             - (IF ~m.statusCode.isNull /\ m.statusCode.v >= 400 THEN 40 ELSE 0)
             - (IF m.statusCode.isNull THEN 15 ELSE 0)
             - (IF Len(logs) > 0 THEN 15 ELSE 0)
             - (IF m.htmlSnippet.isNull \/ m.htmlSnippet.v = <<>> THEN 10 ELSE 0)
    IN  IF s < 0 THEN 0 ELSE s

\* C10: for every ScanMetrics (statusCode null or any non-negative integer)
\* and every logs string the scoring engine returns the score of the
\* deduction table; a present status code below 400 incurs no status
\* deduction.
C10_ScoreFormula ==
    (anPath = "direct" /\ anPc = "resolved") =>
        anResult.healthScore = ClaimedScore(metrics, consoleLogs)

\* the parts of the snippet the claim names: the whole matched head block,
\* and at most the first 1500 characters of the body region's inner content
HeadPart(text) == IF headMatch(text).isNull THEN <<>> ELSE headMatch(text).v

BodyPart(text) ==
    IF bodyMatch(text).isNull THEN <<>>
    ELSE SubSeq(bodyMatch(text).v, 1,
                IF Len(bodyMatch(text).v) > 1500 THEN 1500 ELSE Len(bodyMatch(text).v))

RawPrefix(text) == SubSeq(text, 1, IF Len(text) > 2000 THEN 2000 ELSE Len(text))

ProbeSucceeded == scanPc = "resolved" /\ scanResult.fetchError.isNull

\* C11 as stated: the snippet is the head block followed by the capped body
\* content, and the first 2000 characters of the raw body are used instead
\* exactly when neither region is found.
C11_Original ==
    ProbeSucceeded =>
        scanResult.htmlSnippet =
            IF headMatch(site.body).isNull /\ bodyMatch(site.body).isNull
            THEN Val(RawPrefix(site.body))
            ELSE Val(HeadPart(site.body) \o BodyPart(site.body))

\* C11 amended: the first 2000 characters of the raw body are used instead
\* exactly when the head block followed by the capped body content is empty:
\* when neither region is found, or when no head region is found and the body
\* region's inner content is empty.
C11_Snippet ==
    ProbeSucceeded =>
        /\ scanResult.htmlSnippet =
              IF HeadPart(site.body) \o BodyPart(site.body) = <<>>
              THEN Val(RawPrefix(site.body))
              ELSE Val(HeadPart(site.body) \o BodyPart(site.body))
        /\ HeadPart(site.body) \o BodyPart(site.body) = <<>> <=>
              \/ headMatch(site.body).isNull /\ bodyMatch(site.body).isNull
              \/ headMatch(site.body).isNull /\ bodyMatch(site.body) = Val(<<>>)

\* C11 witness: only an empty body region was found, and the raw body was used
C11_Witness ==
    /\ ProbeSucceeded
    /\ site.body = <<"<body class=x>", "</body>">>
    /\ scanResult.htmlSnippet = Val(site.body)

\* C12 as stated: a successful probe with an empty response body has its
\* htmlSnippet absent (null, as on a failed probe).
C12_Original ==
    (ProbeSucceeded /\ site.body = <<>>) => scanResult.htmlSnippet = Null

\* C12 amended: a successful probe with an empty response body has the empty
\* string as its htmlSnippet: a present value, not null, that is falsy like
\* the null of a failed probe.
C12_EmptySnippet ==
    (ProbeSucceeded /\ site.body = <<>>) =>
        /\ scanResult.htmlSnippet = Val(<<>>)
        /\ scanResult.htmlSnippet # Null
        /\ FalsySeq(scanResult.htmlSnippet)

\* C12 witness: a probe of an endpoint with an empty body has succeeded
C12_Witness ==
    /\ ProbeSucceeded
    /\ site.kind = "ok"
    /\ site.body = <<>>
    /\ scanResult.htmlSnippet = Val(<<>>)

\* the two letter cases of a character of the scheme
AnyCase(c) ==
    CASE c = "h" -> {"h", "H"}
      [] c = "t" -> {"t", "T"}
      [] c = "p" -> {"p", "P"}
      [] c = "s" -> {"s", "S"}
      [] OTHER   -> {c}

\* t begins with http:// or https:// in any letter case
BeginsWithScheme(t) ==
    \E sch \in {HTTP_SCHEME, HTTPS_SCHEME} :
        /\ Len(t) >= Len(sch)
        /\ \A i \in 1..Len(sch) : t[i] \in AnyCase(sch[i])

\* the url the claim states for a raw input
ClaimedUrl(raw) ==
    IF BeginsWithScheme(trim(raw)) THEN trim(raw) ELSE HTTPS_SCHEME \o trim(raw)

\* C13: the url of the returned ScanMetrics, on success and on failure alike,
\* is the trimmed input if that begins with http:// or https:// in any letter
\* case and otherwise the trimmed input with https:// prepended; the request
\* is issued against exactly that url.
C13_UrlNormalised ==
    /\ scanPc # "idle" => (url = ClaimedUrl(rawUrl) /\ fetched = <<ClaimedUrl(rawUrl)>>)
    /\ scanPc = "resolved" => scanResult.url = ClaimedUrl(rawUrl)

\* C13 witness: a failed probe of an input with white space around a
\* mixed-case scheme
C13_Witness ==
    /\ scanPc = "resolved"
    /\ ~scanResult.fetchError.isNull
    /\ rawUrl = <<"\t", "H", "t", "t", "p", ":", "/", "/", "a", "\n">>
    /\ scanResult.url = <<"H", "t", "t", "p", ":", "/", "/", "a">>
    /\ fetched = <<scanResult.url>>

\* C15: once analyzeWithGemini has resolved after entering the race (remote
\* success, remote rejection, empty or unparseable payload), no 15000 ms timer
\* of that invocation is still pending.
C15_TimerReleased ==
    (anPc = "resolved" /\ anPath \in {"remote", "fallback"}) => timer15000 # "pending"

\* C16: once scanWebsite has resolved, on the success and on the failure path,
\* its 4000 ms timer is no longer pending, and controller.abort() is not
\* invoked afterwards.
C16_ProbeTimerCleared ==
    /\ [](scanPc = "resolved" => timer4000 \in {"cleared", "fired"})
    /\ [][scanPc = "resolved" => (aborted' = aborted /\ timer4000' = timer4000)]_vars

\* C16 witness: a probe failed before the deadline and its timer was cleared
C16_Witness ==
    /\ scanPc = "resolved"
    /\ ~scanResult.fetchError.isNull
    /\ timer4000 = "cleared"
    /\ ~aborted

\* C17: within one scan there is exactly one probe attempt and at most one
\* remote AI call, whatever their outcomes.
C17_SingleAttempt ==
    /\ Len(fetched) = (IF scanPc = "idle" THEN 0 ELSE 1)
    /\ apiCalls = (IF apiCall = "none" THEN 0 ELSE 1)
    /\ anPc \in {"resolved", "rejected"} => (Len(fetched) = 1 /\ apiCalls <= 1)

\* C17 witness: the probe timed out, the remote call was made once and the
\* analysis fell back, with one request each
C17_Witness ==
    /\ anPc = "resolved"
    /\ anPath = "fallback"
    /\ scanResult.fetchError = Val(ConnectionTimeout)
    /\ Len(fetched) = 1
    /\ apiCalls = 1

\* the scoring engine has returned its report for (metrics, consoleLogs)
ScoreApplied == anPath = "direct" /\ anPc = "resolved"

\* the scores the scoring engine returns over all inputs, and the lowest
ReturnedScores == { score(m, logs) : m \in ScoreMetrics, logs \in LogInputs }

LowestReturned == CHOOSE s \in ReturnedScores : \A t \in ReturnedScores : s <= t

\* C18 as stated: the maximum total deduction is 100, so the lowest healthScore
\* the scoring engine can return is 0, and the score before clamping is never
\* negative.
C18_Original ==
    ScoreApplied =>
        /\ rawScore(metrics, consoleLogs) >= 0
        /\ anResult.healthScore = LowestReturned => anResult.healthScore = 0

\* C18 amended: the maximum total deduction is 85 (the 40 and the 15 of the
\* status exclude each other), so the lowest healthScore is 15; the score
\* before clamping is never negative, and the clamp never changes it.
C18_DeductionBound ==
    ScoreApplied =>
        /\ 100 - anResult.healthScore <= 85
        /\ anResult.healthScore >= 15
        /\ rawScore(metrics, consoleLogs) >= 0
        /\ rawScore(metrics, consoleLogs) = anResult.healthScore
        /\ LowestReturned = 15

\* C18 witness: every deduction that can apply together has applied
C18_Witness ==
    /\ ScoreApplied
    /\ anResult.healthScore = 15
    /\ metrics.statusCode = Val(500)
    /\ metrics.htmlSnippet = Null
    /\ Len(consoleLogs) > 0

\* the narrative fields of a report: everything but the score
Narrative(a) ==
    [seo |-> a.seo, accessibility |-> a.accessibility, privacy |-> a.privacy,
     jsErrors |-> a.jsErrors, recommendations |-> a.recommendations]

\* the four inputs the claim names: snippet present, secure scheme, logs
\* non-empty, score tier
FourInputs(m, logs) ==
    << ~m.htmlSnippet.isNull, startsWith(m.url, HTTPS_PREFIX), Len(logs) > 0,
       score(m, logs) > 80 >>

\* the inputs the narrative is found to depend on: snippet non-empty, snippet
\* contains <title>, snippet contains description, secure scheme, logs
\* non-empty, fetchError set, score tier
SevenInputs(m, logs) ==
    << ~m.htmlSnippet.isNull /\ m.htmlSnippet.v # <<>>,
       ~m.htmlSnippet.isNull /\ (\E i \in 1..Len(m.htmlSnippet.v) : m.htmlSnippet.v[i] = "<title>"),
       ~m.htmlSnippet.isNull /\ (\E i \in 1..Len(m.htmlSnippet.v) : m.htmlSnippet.v[i] = "description"),
       startsWith(m.url, HTTPS_PREFIX),
       Len(logs) > 0,
       ~m.fetchError.isNull /\ m.fetchError.v # "",
       score(m, logs) > 80 >>

\* every (inputs, narrative) pair the scoring engine produces
NarrativesByFour ==
    { <<FourInputs(m, logs), Narrative(simulateAnalysis(m, logs))>> :
          m \in ScoreMetrics, logs \in LogInputs }

NarrativesBySeven ==
    { <<SevenInputs(m, logs), Narrative(simulateAnalysis(m, logs))>> :
          m \in ScoreMetrics, logs \in LogInputs }

\* C19 as stated: any two inputs that agree on snippet presence, secure
\* scheme, log presence and score tier yield identical narrative fields,
\* whatever their fetchError or snippet contents.
C19_Original ==
    ScoreApplied =>
        \A o \in NarrativesByFour :
            o[1] = FourInputs(metrics, consoleLogs) => o[2] = Narrative(anResult)

\* C19 amended: any two inputs that agree on whether the snippet is non-empty,
\* whether it contains <title>, whether it contains description, on the secure
\* scheme, on log presence, on whether fetchError is set and on the score tier
\* yield identical narrative fields.
C19_NarrativeInputs ==
    ScoreApplied =>
        \A o \in NarrativesBySeven :
            o[1] = SevenInputs(metrics, consoleLogs) => o[2] = Narrative(anResult)

\* C19 witness: a report for a snippet with a title and a set fetchError,
\* the two inputs the narrative reads beyond the four
C19_Witness ==
    /\ ScoreApplied
    /\ metrics.htmlSnippet = Val(<<"<title>", "description">>)
    /\ metrics.fetchError = Val("Failed to fetch")
    /\ anResult.seo.details[1] = "Page title is visible to search engines"
    /\ Len(anResult.recommendations) = 3

\* C20: privacy.level is "Low concern" exactly when the returned healthScore
\* is greater than 80 and "Needs attention" otherwise; never "High concern".
C20_PrivacyLevel ==
    ScoreApplied =>
        /\ anResult.privacy.level =
              IF anResult.healthScore > 80 THEN "Low concern" ELSE "Needs attention"
        /\ anResult.privacy.level # "High concern"

\* C20 witness: a report at the boundary score 80
C20_Witness ==
    /\ ScoreApplied
    /\ anResult.healthScore = 80
    /\ anResult.privacy.level = "Needs attention"

\* C14: after clearAll, metrics and analysis are null and stay null until a
\* later handleScan starts a scan, even when clearAll is invoked while a
\* scan's probe or enrichment is still in flight.
C14_ResetDiscards ==
    resetSince => (app.metrics = Null /\ app.analysis = Null)

\* C21: two invocations of simulateAnalysis with identical (ScanMetrics, logs)
\* return the same healthScore and the same narrative fields, whatever was
\* invoked before or between them.
C21_Deterministic ==
    \A i, j \in 1..Len(invocations) :
        (invocations[i].metrics = invocations[j].metrics
            /\ invocations[i].logs = invocations[j].logs)
        => /\ invocations[i].result.healthScore = invocations[j].result.healthScore
           /\ Narrative(invocations[i].result) = Narrative(invocations[j].result)

\* C21 witness: the same input scored twice with a different input in between
C21_Witness ==
    /\ Len(invocations) = 3
    /\ invocations[1].metrics = invocations[3].metrics
    /\ invocations[1].logs = invocations[3].logs
    /\ invocations[2].metrics # invocations[1].metrics
    /\ invocations[2].result.healthScore # invocations[1].result.healthScore

\* the handleScan invocations whose probe or enrichment has not settled
InFlight == { i \in 1..Len(runs) : runs[i].pc # "done" }

\* C22: at most one handleScan invocation is in flight at any time, under any
\* interleaving of Run Diagnosis clicks, clearAll clicks and completions.
C22_OneInFlight == Cardinality(InFlight) <= 1

\* C23: in every reachable UI state, status = 'complete' implies that both
\* metrics and analysis are non-null.
C23_CompleteHasResults ==
    app.status = "complete" => (app.metrics # Null /\ app.analysis # Null)

\* C24: whenever metrics and analysis are both non-null, the analysis was
\* computed from exactly that metrics value, by the same scan.
C24_SameScan ==
    (app.metrics # Null /\ app.analysis # Null) =>
        /\ shownBy.metrics = shownBy.analysis
        /\ app.metrics = runs[shownBy.analysis].scanResult

\* the scoring engine has scored the result of this scan's probe
ProbeScored == anPc = "resolved" /\ anPath \in {"simulated", "fallback"}

\* C26: in the composed pipeline a ScanMetrics with fetchError has statusCode
\* null and htmlSnippet null, so a failed probe carries both the status-absent
\* and the snippet-absent deduction: its score is at most 75 and never 85.
C26_FailedProbeScore ==
    /\ (scanPc = "resolved" /\ ~scanResult.fetchError.isNull) =>
           (scanResult.statusCode = Null /\ scanResult.htmlSnippet = Null)
    /\ (ProbeScored /\ ~metrics.fetchError.isNull) =>
           /\ anResult.healthScore <= 100 - 15 - 10
           /\ anResult.healthScore # 85

\* C26 witness: a timed-out probe of an https url, scored without logs
C26_Witness ==
    /\ ProbeScored
    /\ metrics.fetchError = Val(ConnectionTimeout)
    /\ consoleLogs = <<>>
    /\ anResult.healthScore = 75

\* the normaliser found an https:// scheme, in any letter case, on the input
AcceptedAsHttps(raw) ==
    /\ hasScheme(trim(raw))
    /\ Len(trim(raw)) >= Len(HTTPS_SCHEME)
    /\ \A i \in 1..Len(HTTPS_SCHEME) : trim(raw)[i] \in AnyCase(HTTPS_SCHEME[i])

\* the score of (m, logs) without the insecure-scheme deduction
SecureScore(m, logs) ==
    100 - statusDeduction(m)
        - (IF Len(logs) > 0 THEN 15 ELSE 0)
        - (IF m.htmlSnippet.isNull \/ m.htmlSnippet.v = <<>> THEN 10 ELSE 0)

\* C27: every url the normaliser accepts as already having an https:// scheme
\* (matched case-insensitively) receives no insecure-scheme deduction from the
\* scoring engine, and is not told to switch to HTTPS.
C27_SchemeAgreement ==
    (ProbeScored /\ AcceptedAsHttps(rawUrl)) =>
        /\ anResult.healthScore = SecureScore(metrics, consoleLogs)
        /\ anResult.recommendations[1] #
              "Switch to HTTPS to protect user passwords and improve Google ranking."

\* C25: every scan that handleScan starts eventually leaves the busy states:
\* assuming timers fire, status reaches 'complete' or 'error', whatever the
\* probed endpoint and the remote service do, never responding included.
C25_ScanTerminates ==
    (app.status \in {"scanning", "analyzing"}) ~> (app.status \in {"complete", "error"})

\* C25 witness: a scan has completed although neither the probed endpoint
\* nor the remote service ever responded
C25_Witness ==
    /\ app.status = "complete"
    /\ site.kind = "silent"
    /\ remoteEnv.call = "silent"
    /\ apiKey # ""
    /\ timer4000 = "fired"
    /\ timer15000 = "fired"

====
